---- MODULE Spec2Model ----
(***************************************************************************)
(* Team entry point-optimizer of track-xc-result-processor: the simple and *)
(* the advanced optimizer, the competition predictor, the combination      *)
(* validity predicate and the points table, over a rankings directory of   *)
(* per-event ranking files.                                                *)
(***************************************************************************)
EXTENDS Integers, Sequences, FiniteSets, TLC

VARIABLES
    dirExists,   \* fs.existsSync(rankingsDir)
    files,       \* the event_rankings_*.json files, in fs.readdirSync order
    result,      \* outcome of the last optimize call
    first,       \* outcome of the first optimize call
    events,      \* an event list, the argument of isValidCombination
    valid,       \* <<>>, or <<b>> (<<b, "advanced">>) after isValidCombination(events) returned b
    lookup,      \* <<>>, or the last points lookup <<[place, points]>>
    options,     \* one athlete's eventScores entries, in insertion order
    selected,    \* <<>>, or <<e, c>> with the AthleteEntry e built from options by class c
    allMode,     \* <<>>, or <<r>> after the optimize-advanced script ran in all mode
    allResults,  \* the XCResult rows parsed from a meet directory
    teamResult,  \* <<>>, or <<t>> with the XCTeamResult extracted for a team
    individuals, \* the RawResult rows parsed from a track meet
    relays,      \* the RelayResult rows parsed from a track meet
    categories   \* <<>>, or <<c>> with the generated event and relay rankings

\* the variables of the cross country and the rankings generators
other == <<allMode, allResults, teamResult, individuals, relays, categories>>

vars == <<dirExists, files, result, first, events, valid, lookup, options, selected, other>>

----------------------------------------------------------------------------
(* Bounds of the model *)

MaxFiles == 5          \* ranking files in the directory
MaxCells == 5          \* files times the longest ranking list of the directory
MaxRows == 6           \* ranking list of a directory that holds a single file
MaxRepeatCells == 2    \* MaxCells of the directories optimized more than once
MaxRuns == 3           \* optimizer runs over one directory
MaxSquad == 5          \* ranked athletes of the event of a one-event season
MaxRunners == 4        \* rows of a cross country meet
MaxScoringPlaces == 2  \* largest scoringPlaces of a ScoringConfig
MaxResults == 3        \* individual and relay results of a season
MaxLen == 5            \* length of an event list handed to isValidCombination
MaxPlace == 7          \* places looked up in the points table: -1..MaxPlace
MaxOptions == 5        \* candidate events of one athlete
MaxRank == 3           \* largest rank of a candidate event

\* event codes that have a ranking file
FileEvents == {"1600", "200", "400", "800", "LJ"}
\* event codes of the lists handed to isValidCombination
ListEvents == {"100", "1600", "200", "800", "LJ"}
\* event codes of one athlete's candidates
OptionEvents == {"100", "1600", "200", "400", "800", "LJ"}
\* the athletes that get ranked: two of team P, and one of team Q who bears
\* the name of a P athlete
Roster == {[athlete |-> "X", team |-> "P"], [athlete |-> "Y", team |-> "P"],
           [athlete |-> "X", team |-> "Q"]}
TargetTeams == {"P"}
\* team identifiers typed at the prompt of the optimize scripts
TeamInputs == {"P", "p"}
Genders == {"Male", "Female"}
Grade == "7th grade"
Season == "2025"

----------------------------------------------------------------------------
(* Generic helpers: Array.prototype functions *)

includes(s, x) == \E i \in DOMAIN s : s[i] = x

\* Array.prototype.filter
filter(s, Test(_)) == SelectSeq(s, Test)

RECURSIVE SumSeq(_)
SumSeq(s) == IF s = <<>> THEN 0 ELSE Head(s) + SumSeq(Tail(s))

\* Array.prototype.sort with comparator cmp (negative: a first); the sort is
\* stable, elements that compare equal keep their relative order.
sort(s, cmp(_, _)) ==
    LET n == Len(s)
        before(j, i) == cmp(s[j], s[i]) < 0 \/ (cmp(s[j], s[i]) = 0 /\ j < i)
        pos(i) == 1 + Cardinality({j \in 1..n : before(j, i)})
    IN  [k \in 1..n |-> s[CHOOSE i \in 1..n : pos(i) = k]]

\* String.prototype.localeCompare on event codes: digits collate before
\* letters, character by character.
CodeOrder == <<"100", "1600", "200", "400", "800", "LJ">>

localeCompare(a, b) ==
    LET ia == CHOOSE i \in DOMAIN CodeOrder : CodeOrder[i] = a
        ib == CHOOSE i \in DOMAIN CodeOrder : CodeOrder[i] = b
    IN  ia - ib

----------------------------------------------------------------------------
(* Points table *)

POINTS_TABLE == [p \in 1..5 |-> CASE p = 1 -> 8 [] p = 2 -> 6 [] p = 3 -> 4
                                  [] p = 4 -> 2 [] p = 5 -> 1]

\* sixth place scored like fifth
PointsFor_sixScores(x) ==
    IF x \in DOMAIN POINTS_TABLE THEN POINTS_TABLE[x] ELSE IF x = 6 THEN 1 ELSE 0

\* POINTS_TABLE[x] || 0
PointsFor(x) == IF x \in DOMAIN POINTS_TABLE THEN POINTS_TABLE[x] ELSE 0

----------------------------------------------------------------------------
(* ResultUtils *)

trackEvents == {"60", "100", "200", "400", "800", "1600", "3200",
                "4x100", "4x200", "4x400", "4x800"}

isTrackEvent(eventAbbr) == eventAbbr \in trackEvents

isFieldEvent(eventAbbr) == ~isTrackEvent(eventAbbr)

----------------------------------------------------------------------------
(* isValidCombination, one copy per optimizer class *)

\* the distance-double rule left out: only the cap is tested
Simple_isValidCombination_capOnly(evs) == Len(evs) <= 4

\* the needs-a-field-event test of a full distance-double list left out
Simple_isValidCombination_noFieldRule(evs) ==
    IF Len(evs) > 4 THEN FALSE
    ELSE
        LET otherRunning == filter(evs, LAMBDA e : isTrackEvent(e) /\ e # "1600" /\ e # "800")
        IN  ~(includes(evs, "1600") /\ includes(evs, "800") /\ Len(otherRunning) > 1)

\* a distance double allows no other track event at all
Simple_isValidCombination_noExtraTrack(evs) ==
    IF Len(evs) > 4 THEN FALSE
    ELSE
        LET otherRunning == filter(evs, LAMBDA e : isTrackEvent(e) /\ e # "1600" /\ e # "800")
            fieldEvents == filter(evs, isFieldEvent)
        IN  IF includes(evs, "1600") /\ includes(evs, "800")
            THEN IF Len(otherRunning) > 0 THEN FALSE
                 ELSE IF Len(evs) = 4 /\ Len(fieldEvents) = 0 THEN FALSE
                 ELSE TRUE
            ELSE TRUE

\* the distance double recognised only when the list starts with the 1600
Simple_isValidCombination_firstOnly(evs) ==
    IF Len(evs) > 4 THEN FALSE
    ELSE
        LET otherRunning == filter(evs, LAMBDA e : isTrackEvent(e) /\ e # "1600" /\ e # "800")
            fieldEvents == filter(evs, isFieldEvent)
        IN  IF evs # <<>> /\ Head(evs) = "1600" /\ includes(evs, "800")
            THEN IF Len(otherRunning) > 1 THEN FALSE
                 ELSE IF Len(evs) = 4 /\ Len(fieldEvents) = 0 THEN FALSE
                 ELSE TRUE
            ELSE TRUE

Simple_isValidCombination(evs) ==
    IF Len(evs) > 4 THEN FALSE
    ELSE
        LET has1600 == includes(evs, "1600")
            has800 == includes(evs, "800")
            runningEvents == filter(evs, isTrackEvent)
            otherRunning == filter(runningEvents, LAMBDA e : e # "1600" /\ e # "800")
            fieldEvents == filter(evs, isFieldEvent)
        IN  IF has1600 /\ has800
            THEN IF Len(otherRunning) > 1 THEN FALSE
                 ELSE IF Len(evs) = 4 /\ Len(fieldEvents) = 0 THEN FALSE
                 ELSE TRUE
            ELSE TRUE

\* only the 4-event cap, the distance-double rule left out
Advanced_isValidCombination_capOnly(evs) == Len(evs) <= 4

Advanced_isValidCombination(evs) ==
    IF Len(evs) > 4 THEN FALSE
    ELSE
        LET has1600 == includes(evs, "1600")
            has800 == includes(evs, "800")
            runningEvents == filter(evs, isTrackEvent)
            otherRunning == filter(runningEvents, LAMBDA e : e # "1600" /\ e # "800")
            fieldEvents == filter(evs, isFieldEvent)
        IN  IF has1600 /\ has800
            THEN IF Len(otherRunning) > 1 THEN FALSE
                 ELSE IF Len(evs) = 4 /\ Len(fieldEvents) = 0 THEN FALSE
                 ELSE TRUE
            ELSE TRUE

----------------------------------------------------------------------------
(* JavaScript Map: a sequence of [key, value] entries in insertion order *)

MapHas(m, k) == \E i \in DOMAIN m : m[i].key = k

MapGet(m, k) == m[CHOOSE i \in DOMAIN m : m[i].key = k].value

\* Map.prototype.set: an existing key keeps its position
MapSet(m, k, v) ==
    IF MapHas(m, k)
    THEN [i \in DOMAIN m |-> IF m[i].key = k THEN [key |-> k, value |-> v] ELSE m[i]]
    ELSE Append(m, [key |-> k, value |-> v])

----------------------------------------------------------------------------
(* loadRankings, identical in both optimizer classes *)

\* the files of the directory that pass the name filter and hold a category
\* of the requested gender and grade, in directory order; of each file the
\* first matching category (Array.prototype.find)
RECURSIVE loadRankings(_, _, _, _)
loadRankings(fs, season, gender, grade) ==
    IF fs = <<>> THEN <<>>
    ELSE
        LET data == Head(fs)
            rest == loadRankings(Tail(fs), season, gender, grade)
            hits == {i \in DOMAIN data.categories :
                        /\ data.categories[i].gender = gender
                        /\ data.categories[i].grade = grade}
            category == data.categories[CHOOSE i \in hits : \A j \in hits : i <= j]
        IN  IF data.season # season \/ hits = {} THEN rest
            ELSE <<[eventAbbr |-> data.eventAbbr, gender |-> gender,
                    grade |-> grade, rankings |-> category.rankings]>> \o rest

\* the team filter left out: the rows of every team
RECURSIVE TeamRows_everyTeam(_, _)
TeamRows_everyTeam(allRankings, teamName) ==
    IF allRankings = <<>> THEN <<>>
    ELSE
        LET eventData == Head(allRankings)
        IN  [i \in DOMAIN eventData.rankings |->
                [eventData |-> eventData, ranking |-> eventData.rankings[i]]]
            \o TeamRows_everyTeam(Tail(allRankings), teamName)

\* the (eventData, ranking) pairs visited by the nested loops over
\* allRankings and eventData.rankings, restricted to rows of teamName
RECURSIVE TeamRows(_, _)
TeamRows(allRankings, teamName) ==
    IF allRankings = <<>> THEN <<>>
    ELSE
        LET eventData == Head(allRankings)
            mine == filter(eventData.rankings, LAMBDA r : r.team = teamName)
        IN  [i \in DOMAIN mine |-> [eventData |-> eventData, ranking |-> mine[i]]]
            \o TeamRows(Tail(allRankings), teamName)

\* eventEntries: Map event -> EventEntry, filled in the order the athletes'
\* selected events are visited; rows is a sequence of [event, row]
RECURSIVE AddToBreakdown(_, _)
AddToBreakdown(eventEntries, rows) ==
    IF rows = <<>> THEN eventEntries
    ELSE
        LET r == Head(rows)
            withEvent == IF MapHas(eventEntries, r.event) THEN eventEntries
                         ELSE MapSet(eventEntries, r.event,
                                     [event |-> r.event, athletes |-> <<>>])
            old == MapGet(withEvent, r.event)
        IN  AddToBreakdown(
                MapSet(withEvent, r.event,
                       [old EXCEPT !.athletes = Append(@, r.row)]),
                Tail(rows))

RECURSIVE Concat(_)
Concat(ss) == IF ss = <<>> THEN <<>> ELSE Head(ss) \o Concat(Tail(ss))

\* the athlete entries left in the order the athletes were first seen
Finish_entriesUnsorted(teamName, gender, grade, entriesUnsorted, eventEntries) ==
    LET byEvent ==
            sort([i \in DOMAIN eventEntries |-> eventEntries[i].value],
                 LAMBDA a, b : localeCompare(a.event, b.event))
        eventBreakdown ==
            [i \in DOMAIN byEvent |->
                [byEvent[i] EXCEPT !.athletes =
                    sort(@, LAMBDA a, b : a.projectedPlace - b.projectedPlace)]]
        totalPoints ==
            SumSeq([i \in DOMAIN entriesUnsorted |-> entriesUnsorted[i].projectedPoints])
    IN  [school |-> teamName, gender |-> gender, grade |-> grade,
         totalProjectedPoints |-> totalPoints,
         athleteEntries |-> entriesUnsorted,
         eventBreakdown |-> eventBreakdown]

\* the sorts and the total that end both optimize methods
Finish(teamName, gender, grade, entriesUnsorted, eventEntries) ==
    LET athleteEntries ==
            sort(entriesUnsorted, LAMBDA a, b : b.projectedPoints - a.projectedPoints)
        byEvent ==
            sort([i \in DOMAIN eventEntries |-> eventEntries[i].value],
                 LAMBDA a, b : localeCompare(a.event, b.event))
        eventBreakdown ==
            [i \in DOMAIN byEvent |->
                [byEvent[i] EXCEPT !.athletes =
                    sort(@, LAMBDA a, b : a.projectedPlace - b.projectedPlace)]]
        totalPoints ==
            SumSeq([i \in DOMAIN athleteEntries |-> athleteEntries[i].projectedPoints])
    IN  [school |-> teamName, gender |-> gender, grade |-> grade,
         totalProjectedPoints |-> totalPoints,
         athleteEntries |-> athleteEntries,
         eventBreakdown |-> eventBreakdown]

----------------------------------------------------------------------------
(* SimpleTeamEntryOptimizer.optimize *)

\* athleteScores: Map athlete -> Map event -> {rank, points}
RECURSIVE Simple_athleteScores(_, _)
Simple_athleteScores(athleteScores, teamRows) ==
    IF teamRows = <<>> THEN athleteScores
    ELSE
        LET ranking == Head(teamRows).ranking
            eventData == Head(teamRows).eventData
            pts == PointsFor(ranking.rank)
            withAthlete == IF MapHas(athleteScores, ranking.athlete) THEN athleteScores
                           ELSE MapSet(athleteScores, ranking.athlete, <<>>)
            inner == MapGet(withAthlete, ranking.athlete)
        IN  Simple_athleteScores(
                MapSet(withAthlete, ranking.athlete,
                       MapSet(inner, eventData.eventAbbr,
                              [rank |-> ranking.rank, points |-> pts])),
                Tail(teamRows))

\* the candidates left in the order of the categories
Simple_sortedEvents_unsorted(eventScores) == eventScores

\* events sorted by points (descending), then by rank (ascending)
Simple_sortedEvents(eventScores) ==
    sort(eventScores,
         LAMBDA a, b : IF b.value.points # a.value.points
                       THEN b.value.points - a.value.points
                       ELSE a.value.rank - b.value.rank)

\* every candidate taken, neither the validity test nor the break
Simple_select_unchecked(sortedEvents, selectedEvents) ==
    selectedEvents \o [i \in DOMAIN sortedEvents |-> sortedEvents[i].key]

\* the loop stops at 3 accepted events
RECURSIVE Simple_select_capThree(_, _)
Simple_select_capThree(sortedEvents, selectedEvents) ==
    IF sortedEvents = <<>> THEN selectedEvents
    ELSE IF Len(selectedEvents) >= 3 THEN selectedEvents
    ELSE
        LET event == Head(sortedEvents).key
            testEvents == Append(selectedEvents, event)
        IN  IF Simple_isValidCombination(testEvents)
            THEN Simple_select_capThree(Tail(sortedEvents), testEvents)
            ELSE Simple_select_capThree(Tail(sortedEvents), selectedEvents)

\* the loop ends at the first rejected candidate
RECURSIVE Simple_select_stopsAtReject(_, _)
Simple_select_stopsAtReject(sortedEvents, selectedEvents) ==
    IF sortedEvents = <<>> THEN selectedEvents
    ELSE IF Len(selectedEvents) >= 4 THEN selectedEvents
    ELSE
        LET event == Head(sortedEvents).key
            testEvents == Append(selectedEvents, event)
        IN  IF Simple_isValidCombination(testEvents)
            THEN Simple_select_stopsAtReject(Tail(sortedEvents), testEvents)
            ELSE selectedEvents

\* the greedy selection loop
RECURSIVE Simple_select(_, _)
Simple_select(sortedEvents, selectedEvents) ==
    IF sortedEvents = <<>> THEN selectedEvents
    ELSE IF Len(selectedEvents) >= 4 THEN selectedEvents
    ELSE
        LET event == Head(sortedEvents).key
            testEvents == Append(selectedEvents, event)
        IN  IF Simple_isValidCombination(testEvents)
            THEN Simple_select(Tail(sortedEvents), testEvents)
            ELSE Simple_select(Tail(sortedEvents), selectedEvents)

\* the breakdown fed from every candidate event instead of the selected ones
Simple_athlete_allRows(athlete, eventScores) ==
    LET selectedEvents == Simple_select(Simple_sortedEvents(eventScores), <<>>)
        totalPoints ==
            SumSeq([i \in DOMAIN selectedEvents |->
                        MapGet(eventScores, selectedEvents[i]).points])
    IN  [entry |-> [athlete |-> athlete, events |-> selectedEvents,
                    projectedPoints |-> totalPoints],
         rows |-> [i \in DOMAIN eventScores |->
                    [event |-> eventScores[i].key,
                     row |-> [athlete |-> athlete,
                              projectedPlace |-> eventScores[i].value.rank,
                              projectedPoints |-> eventScores[i].value.points,
                              currentRank |-> eventScores[i].value.rank]]]]

\* one iteration of the loop over the athletes: the athlete's entry and the
\* rows it adds to the event breakdown
Simple_athlete(athlete, eventScores) ==
    LET selectedEvents == Simple_select(Simple_sortedEvents(eventScores), <<>>)
        totalPoints ==
            SumSeq([i \in DOMAIN selectedEvents |->
                        MapGet(eventScores, selectedEvents[i]).points])
    IN  [entry |-> [athlete |-> athlete, events |-> selectedEvents,
                    projectedPoints |-> totalPoints],
         rows |-> [i \in DOMAIN selectedEvents |->
                    LET score == MapGet(eventScores, selectedEvents[i])
                    IN  [event |-> selectedEvents[i],
                         row |-> [athlete |-> athlete,
                                  projectedPlace |-> score.rank,
                                  projectedPoints |-> score.points,
                                  currentRank |-> score.rank]]]]

\* an athlete is entered only when the selected events score
Simple_optimizeLoaded_dropsScoreless(allRankings, teamName, gender, grade) ==
    LET athleteScores == Simple_athleteScores(<<>>, TeamRows(allRankings, teamName))
        perAthlete == [i \in DOMAIN athleteScores |->
                        Simple_athlete(athleteScores[i].key, athleteScores[i].value)]
        kept == filter(perAthlete, LAMBDA p : p.entry.projectedPoints > 0)
        entriesUnsorted == [i \in DOMAIN kept |-> kept[i].entry]
        eventEntries ==
            AddToBreakdown(<<>>, Concat([i \in DOMAIN kept |-> kept[i].rows]))
    IN  Finish(teamName, gender, grade, entriesUnsorted, eventEntries)

Simple_optimizeLoaded(allRankings, teamName, gender, grade) ==
    LET athleteScores == Simple_athleteScores(<<>>, TeamRows(allRankings, teamName))
        perAthlete == [i \in DOMAIN athleteScores |->
                        Simple_athlete(athleteScores[i].key, athleteScores[i].value)]
        kept == filter(perAthlete, LAMBDA p : Len(p.entry.events) > 0)
        entriesUnsorted == [i \in DOMAIN kept |-> kept[i].entry]
        eventEntries ==
            AddToBreakdown(<<>>, Concat([i \in DOMAIN kept |-> kept[i].rows]))
    IN  Finish(teamName, gender, grade, entriesUnsorted, eventEntries)

\* optimize: throws when the directory does not exist
Simple_optimize(exists, fs, season, teamName, gender, grade) ==
    IF ~exists
    THEN [status |-> "error", error |-> "Rankings directory not found"]
    ELSE [status |-> "ok",
          value |-> Simple_optimizeLoaded(loadRankings(fs, season, gender, grade),
                                          teamName, gender, grade)]

----------------------------------------------------------------------------
(* AdvancedTeamEntryOptimizer *)

\* the athletes a team lists in one event, in row order (teamAthletes.get)
TeamAthletes(eventData, team) ==
    LET rows == filter(eventData.rankings, LAMBDA r : r.team = team)
    IN  [i \in DOMAIN rows |-> rows[i].athlete]

Min(a, b) == IF a < b THEN a ELSE b

\* Array.prototype.slice(0, n)
slice0(s, n) == SubSeq(s, 1, Min(n, Len(s)))

\* every team assumed to enter its best athlete only
predictCompetition_topOne(allRankings) ==
    UNION {
        LET eventData == allRankings[k]
            teams == {eventData.rankings[i].team : i \in DOMAIN eventData.rankings}
        IN  UNION {
                LET athletes == TeamAthletes(eventData, team)
                    topAthletes == slice0(athletes, Min(1, Len(athletes)))
                IN  {<<topAthletes[i], eventData.eventAbbr>> : i \in DOMAIN topAthletes}
                : team \in teams }
        : k \in DOMAIN allRankings }

\* likelyEntries: Map athlete -> Set of events, as the set of the
\* <<athlete, event>> pairs it holds
predictCompetition(allRankings) ==
    UNION {
        LET eventData == allRankings[k]
            teams == {eventData.rankings[i].team : i \in DOMAIN eventData.rankings}
        IN  UNION {
                LET athletes == TeamAthletes(eventData, team)
                    topAthletes == slice0(athletes, Min(3, Len(athletes)))
                IN  {<<topAthletes[i], eventData.eventAbbr>> : i \in DOMAIN topAthletes}
                : team \in teams }
        : k \in DOMAIN allRankings }

\* the row itself counted among the competitors ahead
calculateProjectedPlace_inclusive(athlete, event, currentRank, likelyEntries, eventRankings) ==
    LET ahead == filter(eventRankings.rankings,
                        LAMBDA ranking : /\ ranking.rank <= currentRank
                                         /\ <<ranking.athlete, event>> \in likelyEntries)
        competitorsAhead == Len(ahead)
    IN  competitorsAhead + 1

calculateProjectedPlace(athlete, event, currentRank, likelyEntries, eventRankings) ==
    LET ahead == filter(eventRankings.rankings,
                        LAMBDA ranking : /\ ranking.rank < currentRank
                                         /\ <<ranking.athlete, event>> \in likelyEntries)
        competitorsAhead == Len(ahead)
    IN  competitorsAhead + 1

\* athleteOptions: Map athlete -> AthleteEventScore[]
RECURSIVE Advanced_athleteOptions(_, _, _, _)
Advanced_athleteOptions(athleteOptions, teamRows, teamName, likelyEntries) ==
    IF teamRows = <<>> THEN athleteOptions
    ELSE
        LET ranking == Head(teamRows).ranking
            eventData == Head(teamRows).eventData
            projectedPlace == calculateProjectedPlace(ranking.athlete, eventData.eventAbbr,
                                                      ranking.rank, likelyEntries, eventData)
            pts == PointsFor(projectedPlace)
            withAthlete == IF MapHas(athleteOptions, ranking.athlete) THEN athleteOptions
                           ELSE MapSet(athleteOptions, ranking.athlete, <<>>)
            old == MapGet(withAthlete, ranking.athlete)
        IN  Advanced_athleteOptions(
                MapSet(withAthlete, ranking.athlete,
                       Append(old, [athlete |-> ranking.athlete, team |-> teamName,
                                    event |-> eventData.eventAbbr, rank |-> ranking.rank,
                                    projectedPlace |-> projectedPlace, points |-> pts])),
                Tail(teamRows), teamName, likelyEntries)

\* options sorted by projected points (descending), then projected place (ascending)
Advanced_sortedOptions(opts) ==
    sort(opts, LAMBDA a, b : IF b.points # a.points THEN b.points - a.points
                             ELSE a.projectedPlace - b.projectedPlace)

\* the greedy selection loop; returns selectedScores (selectedEvents is the
\* list of their events)
RECURSIVE Advanced_select(_, _)
Advanced_select(sortedOptions, selectedScores) ==
    IF sortedOptions = <<>> THEN selectedScores
    ELSE IF Len(selectedScores) >= 4 THEN selectedScores
    ELSE
        LET option == Head(sortedOptions)
            selectedEvents == [i \in DOMAIN selectedScores |-> selectedScores[i].event]
            testEvents == Append(selectedEvents, option.event)
        IN  IF Advanced_isValidCombination(testEvents)
            THEN Advanced_select(Tail(sortedOptions), Append(selectedScores, option))
            ELSE Advanced_select(Tail(sortedOptions), selectedScores)

\* the breakdown rows scored by the current rank instead of the projected place
Advanced_athlete_rankPoints(athlete, opts) ==
    LET selectedScores == Advanced_select(Advanced_sortedOptions(opts), <<>>)
        selectedEvents == [i \in DOMAIN selectedScores |-> selectedScores[i].event]
        totalPoints == SumSeq([i \in DOMAIN selectedScores |-> selectedScores[i].points])
    IN  [entry |-> [athlete |-> athlete, events |-> selectedEvents,
                    projectedPoints |-> totalPoints],
         rows |-> [i \in DOMAIN selectedScores |->
                    LET score == selectedScores[i]
                    IN  [event |-> score.event,
                         row |-> [athlete |-> athlete,
                                  projectedPlace |-> score.projectedPlace,
                                  projectedPoints |-> PointsFor(score.rank),
                                  currentRank |-> score.rank]]]]

Advanced_athlete(athlete, opts) ==
    LET selectedScores == Advanced_select(Advanced_sortedOptions(opts), <<>>)
        selectedEvents == [i \in DOMAIN selectedScores |-> selectedScores[i].event]
        totalPoints == SumSeq([i \in DOMAIN selectedScores |-> selectedScores[i].points])
    IN  [entry |-> [athlete |-> athlete, events |-> selectedEvents,
                    projectedPoints |-> totalPoints],
         rows |-> [i \in DOMAIN selectedScores |->
                    LET score == selectedScores[i]
                    IN  [event |-> score.event,
                         row |-> [athlete |-> athlete,
                                  projectedPlace |-> score.projectedPlace,
                                  projectedPoints |-> score.points,
                                  currentRank |-> score.rank]]]]

\* athleteOptions kept in a static member: a run starts from the options the
\* run before it left there
Advanced_optimizeLoaded_staticOptions(allRankings, teamName, gender, grade) ==
    LET likelyEntries == predictCompetition(allRankings)
        left == IF result.status = "ok" /\ result.method = "advanced"
                THEN Advanced_athleteOptions(<<>>, TeamRows(allRankings, result.teamName),
                                             result.teamName, likelyEntries)
                ELSE <<>>
        athleteOptions == Advanced_athleteOptions(left, TeamRows(allRankings, teamName),
                                                  teamName, likelyEntries)
        perAthlete == [i \in DOMAIN athleteOptions |->
                        Advanced_athlete(athleteOptions[i].key, athleteOptions[i].value)]
        kept == filter(perAthlete, LAMBDA p : Len(p.entry.events) > 0)
        entriesUnsorted == [i \in DOMAIN kept |-> kept[i].entry]
        eventEntries ==
            AddToBreakdown(<<>>, Concat([i \in DOMAIN kept |-> kept[i].rows]))
    IN  Finish(teamName, gender, grade, entriesUnsorted, eventEntries)

Advanced_optimizeLoaded(allRankings, teamName, gender, grade) ==
    LET likelyEntries == predictCompetition(allRankings)
        athleteOptions == Advanced_athleteOptions(<<>>, TeamRows(allRankings, teamName),
                                                  teamName, likelyEntries)
        perAthlete == [i \in DOMAIN athleteOptions |->
                        Advanced_athlete(athleteOptions[i].key, athleteOptions[i].value)]
        kept == filter(perAthlete, LAMBDA p : Len(p.entry.events) > 0)
        entriesUnsorted == [i \in DOMAIN kept |-> kept[i].entry]
        eventEntries ==
            AddToBreakdown(<<>>, Concat([i \in DOMAIN kept |-> kept[i].rows]))
    IN  Finish(teamName, gender, grade, entriesUnsorted, eventEntries)

Advanced_optimize(exists, fs, season, teamName, gender, grade) ==
    IF ~exists
    THEN [status |-> "error", error |-> "Rankings directory not found"]
    ELSE [status |-> "ok",
          value |-> Advanced_optimizeLoaded(loadRankings(fs, season, gender, grade),
                                            teamName, gender, grade)]

----------------------------------------------------------------------------
(* The rankings directory and the optimizer runs *)

NoCall == [status |-> "none"]

\* size of the directory: number of files times the longest ranking list
Cells(fs) ==
    LET lens == {Len(fs[i].categories[1].rankings) : i \in DOMAIN fs}
    IN  IF fs = <<>> THEN 0 ELSE Len(fs) * (CHOOSE n \in lens : \A m \in lens : m <= n)

\* the directories of the model: a grid of at most MaxCells cells, or a single
\* file of at most MaxRows rows
Fits(fs) ==
    \/ Cells(fs) <= MaxCells
    \/ Len(fs) = 1 /\ Len(fs[1].categories[1].rankings) <= MaxRows

\* fs.readdirSync lists the files in an order the file system chooses: the
\* model lets it be ascending or descending by file name
Listed(fs) ==
    \/ \A i, j \in DOMAIN fs : i < j => localeCompare(fs[i].eventAbbr, fs[j].eventAbbr) < 0
    \/ \A i, j \in DOMAIN fs : i < j => localeCompare(fs[i].eventAbbr, fs[j].eventAbbr) > 0

\* the result processor creates the rankings directory of the season
MakeDir ==
    /\ ~dirExists
    /\ result = NoCall
    /\ dirExists' = TRUE
    /\ UNCHANGED <<files, result, first, events, valid, lookup, options, selected, other>>

\* EventRankingsGenerator.saveToJSON writes the file of the next event: one
\* category (Male, Grade) whose first athlete gets rank 1
SaveEventFile(e, who) ==
    /\ dirExists
    /\ result = NoCall
    /\ Len(files) < MaxFiles
    /\ \A i \in DOMAIN files : files[i].eventAbbr # e
    /\ LET file == [season |-> Season, eventAbbr |-> e,
                    categories |-> << [gender |-> "Male", grade |-> Grade,
                                       rankings |-> << [rank |-> 1,
                                                        athlete |-> who.athlete,
                                                        team |-> who.team] >>] >>]
       IN  /\ files' = Append(files, file)
           /\ Listed(files')
           /\ Fits(files')
    /\ UNCHANGED <<dirExists, result, first, events, valid, lookup, options, selected, other>>

\* the category of the file being written ranks one more athlete,
\* rank = index + 1
AddRanking(who) ==
    /\ result = NoCall
    /\ files # <<>>
    /\ LET i == Len(files)
           rows == files[i].categories[1].rankings
       IN  files' = [files EXCEPT ![i].categories[1].rankings =
                        Append(rows, [rank |-> Len(rows) + 1,
                                      athlete |-> who.athlete, team |-> who.team])]
    /\ Fits(files')
    /\ UNCHANGED <<dirExists, result, first, events, valid, lookup, options, selected, other>>

\* the optimizer runs made so far
Runs == IF result = NoCall THEN 0 ELSE result.run

\* one run of the optimize-simple script: a single optimize call, which reads
\* the rankings directory and leaves it as it is
OptimizeSimple(teamName, gender) ==
    /\ Runs < MaxRuns
    /\ result' = [method |-> "simple", teamName |-> teamName, gender |-> gender,
                  run |-> Runs + 1]
                 @@ Simple_optimize(dirExists, files, Season, teamName, gender, Grade)
    /\ first' = IF first = NoCall THEN result' ELSE first
    /\ UNCHANGED <<dirExists, files, events, valid, lookup, options, selected, other>>

\* one run of the optimize-advanced script for a single gender and grade
OptimizeAdvanced(teamName, gender) ==
    /\ Runs < MaxRuns
    /\ result' = [method |-> "advanced", teamName |-> teamName, gender |-> gender,
                  run |-> Runs + 1]
                 @@ Advanced_optimize(dirExists, files, Season, teamName, gender, Grade)
    /\ first' = IF first = NoCall THEN result' ELSE first
    /\ UNCHANGED <<dirExists, files, events, valid, lookup, options, selected, other>>

Init ==
    /\ dirExists = FALSE
    /\ files = <<>>
    /\ result = NoCall
    /\ first = NoCall
    /\ events = <<>>
    /\ valid = <<>>
    /\ lookup = <<>>
    /\ options = <<>>
    /\ selected = <<>>
    /\ allMode = <<>>
    /\ allResults = <<>>
    /\ teamResult = <<>>
    /\ individuals = <<>>
    /\ relays = <<>>
    /\ categories = <<>>

Next ==
    \/ MakeDir
    \/ \E e \in FileEvents, who \in Roster : SaveEventFile(e, who)
    \/ \E who \in Roster : AddRanking(who)
    \/ \E teamName \in TargetTeams, gender \in Genders :
          result = NoCall /\ OptimizeSimple(teamName, gender)
    \/ \E teamName \in TargetTeams, gender \in Genders :
          result = NoCall /\ OptimizeAdvanced(teamName, gender)

Spec == Init /\ [][Next]_vars

----------------------------------------------------------------------------
(* Several optimizer runs over one rankings directory *)

\* String.prototype.toLowerCase over the team identifiers
toLowerCase(s) ==
    CASE s = "P" -> "p" [] s = "Q" -> "q"
      [] s = "Oak" -> "oak" [] s = "Oak Hill" -> "oak hill" [] s = "Elm" -> "elm"
      [] OTHER -> s

NextRepeat ==
    \/ MakeDir
    \/ \E e \in FileEvents, who \in Roster :
          SaveEventFile(e, who) /\ Cells(files') <= MaxRepeatCells
    \/ \E who \in Roster : AddRanking(who) /\ Cells(files') <= MaxRepeatCells
    \/ \E teamName \in TeamInputs : OptimizeSimple(teamName, "Male")
    \/ \E teamName \in TeamInputs : OptimizeAdvanced(teamName, "Male")

SpecRepeat == Init /\ [][NextRepeat]_vars

----------------------------------------------------------------------------
(* The optimize-advanced script in its "all gender/grades" mode *)

genders == <<"Male", "Female">>

grades == <<"5th grade", "6th grade", "7th grade", "8th grade">>

\* the (gender, grade) pairs in the order of the two nested loops
Combos ==
    [n \in 1..(Len(genders) * Len(grades)) |->
        [gender |-> genders[((n - 1) \div Len(grades)) + 1],
         grade |-> grades[((n - 1) % Len(grades)) + 1]]]

\* the nested loops over the outcomes of the optimize calls, calls[n] the
\* outcome for Combos[n]: a call that returns pushes its result, one that
\* throws is caught and logged as "No data"
collectResults(teamName, calls) ==
    LET returned == filter([n \in DOMAIN Combos |-> n], LAMBDA n : calls[n].status = "ok")
        thrown == filter([n \in DOMAIN Combos |-> n], LAMBDA n : calls[n].status # "ok")
    IN  [results |-> [i \in DOMAIN returned |->
                        [result |-> calls[returned[i]].value,
                         outputPrefix |-> <<teamName, Combos[returned[i]].gender,
                                            Combos[returned[i]].grade>>]],
         noData |-> [i \in DOMAIN thrown |-> Combos[thrown[i]]]]

\* the saving loop: a JSON file and a TXT file for every entry of results
savedFiles(results) ==
    UNION {{<<results[i].outputPrefix, "_advanced.json">>,
            <<results[i].outputPrefix, "_advanced.txt">>} : i \in DOMAIN results}

\* what the script has pushed, logged and written when it ends
scriptOutcome(done) ==
    [results |-> done.results, noData |-> done.noData, saved |-> savedFiles(done.results)]

\* one run of the script with scope 2; the script exits before it asks for
\* the team when the rankings directory is missing
OptimizeAll(teamName) ==
    /\ dirExists
    /\ allMode = <<>>
    /\ allMode' =
          <<scriptOutcome(collectResults(teamName,
                [n \in DOMAIN Combos |->
                    Advanced_optimize(dirExists, files, Season, teamName,
                                      Combos[n].gender, Combos[n].grade)]))>>
    /\ UNCHANGED <<dirExists, files, result, first, events, valid, lookup, options,
                   selected, allResults, teamResult, individuals, relays, categories>>

NextAll ==
    \/ allMode = <<>> /\ MakeDir
    \/ \E e \in FileEvents, who \in Roster :
          allMode = <<>> /\ SaveEventFile(e, who) /\ Cells(files') <= MaxRepeatCells
    \/ \E who \in Roster :
          allMode = <<>> /\ AddRanking(who) /\ Cells(files') <= MaxRepeatCells
    \/ \E teamName \in TargetTeams : OptimizeAll(teamName)

SpecAll == Init /\ [][NextAll]_vars

----------------------------------------------------------------------------
(* A season with one event in which a team ranks more than three athletes *)

\* five athletes of team P and one of team Q, all with different names
Squad ==
    {[athlete |-> n, team |-> "P"] : n \in {"A", "B", "C", "D", "E"}}
        \cup {[athlete |-> "F", team |-> "Q"]}

SquadEvent == "200"

\* the names ranked so far in the event
Ranked == IF files = <<>> THEN {}
          ELSE {files[1].categories[1].rankings[i].athlete :
                   i \in DOMAIN files[1].categories[1].rankings}

NextSquad ==
    \/ MakeDir
    \/ \E who \in Squad : SaveEventFile(SquadEvent, who)
    \/ \E who \in Squad :
          /\ who.athlete \notin Ranked
          /\ Cardinality(Ranked) < MaxSquad
          /\ AddRanking(who)
    \/ result = NoCall /\ OptimizeSimple("P", "Male")
    \/ result = NoCall /\ OptimizeAdvanced("P", "Male")

SpecSquad == Init /\ [][NextSquad]_vars

----------------------------------------------------------------------------
(* Cross country: XCCSVParser and XCTeamResultsExtractor *)

\* the value null of a score, a teamScore or a teamPlace; a number n is <<n>>
null == <<>>

\* the teams of the meet
XCTeams == {"Oak", "Oak Hill", "Elm"}

\* the athletes of the meet, by finishing place
RunnerNames == <<"r1", "r2", "r3", "r4", "r5", "r6", "r7", "r8">>

RaceId == "56boys"

raceOrder == <<"34girls", "34boys", "56girls", "56boys", "78girls", "78boys">>

\* String.prototype.includes over the lower-cased team names
StringIncludes(s, part) == s = part \/ (s = "oak hill" /\ part = "oak")

\* XCCSVParser.getUniqueTeams, as the set it sorts
getUniqueTeams(results) == {results[i].team : i \in DOMAIN results}

XCCSVParser_filterByTeam(results, teamName) ==
    LET lowerTeamName == toLowerCase(teamName)
    IN  filter(results, LAMBDA r : StringIncludes(toLowerCase(r.team), lowerTeamName))

\* XCCSVParser.groupByRace: Map raceIdentifier -> results
RECURSIVE groupByRace(_, _)
groupByRace(grouped, results) ==
    IF results = <<>> THEN grouped
    ELSE
        LET r == Head(results)
            withRace == IF MapHas(grouped, r.raceIdentifier) THEN grouped
                        ELSE MapSet(grouped, r.raceIdentifier, <<>>)
        IN  groupByRace(MapSet(withRace, r.raceIdentifier,
                               Append(MapGet(withRace, r.raceIdentifier), r)),
                        Tail(results))

\* a.place || 999
PlaceOr999(place) == IF place = 0 THEN 999 ELSE place

\* the loop of calculateTeamScore over the team's results: marks the scoring
\* runners and adds their scores
RECURSIVE markScoring(_, _, _, _, _)
markScoring(results, scoringPlaces, scoringCount, teamScore, marked) ==
    IF results = <<>> THEN [results |-> marked, teamScore |-> teamScore]
    ELSE
        LET r == Head(results)
        IN  IF scoringCount < scoringPlaces /\ r.score # null
            THEN markScoring(Tail(results), scoringPlaces, scoringCount + 1,
                             teamScore + r.score[1],
                             Append(marked, [r EXCEPT !.scoring = <<TRUE>>]))
            ELSE markScoring(Tail(results), scoringPlaces, scoringCount, teamScore,
                             Append(marked, [r EXCEPT !.scoring = <<FALSE>>]))

\* the scores of the teams that have scoringPlaces runners with a score, in
\* the order the teams first finish
RECURSIVE scoreTeams(_, _)
scoreTeams(teamGroups, scoringPlaces) ==
    IF teamGroups = <<>> THEN <<>>
    ELSE
        LET results == Head(teamGroups).value
            sortedResults == sort(results, LAMBDA a, b : PlaceOr999(a.place) - PlaceOr999(b.place))
            scoringRunners == filter(sortedResults, LAMBDA r : r.score # null)
            top == slice0(scoringRunners, scoringPlaces)
            rest == scoreTeams(Tail(teamGroups), scoringPlaces)
        IN  IF Len(scoringRunners) >= scoringPlaces
            THEN <<[team |-> Head(teamGroups).key,
                    score |-> SumSeq([i \in DOMAIN top |-> top[i].score[1]])]>> \o rest
            ELSE rest

\* the Map team -> results of calculateTeamPlacement
RECURSIVE groupByTeam(_, _)
groupByTeam(teamGroups, results) ==
    IF results = <<>> THEN teamGroups
    ELSE
        LET r == Head(results)
            withTeam == IF MapHas(teamGroups, r.team) THEN teamGroups
                        ELSE MapSet(teamGroups, r.team, <<>>)
        IN  groupByTeam(MapSet(withTeam, r.team, Append(MapGet(withTeam, r.team), r)),
                        Tail(results))

\* Array.prototype.findIndex, counted from 0; -1 when nothing passes
findIndex(s, Test(_)) ==
    IF \E i \in DOMAIN s : Test(s[i])
    THEN (CHOOSE i \in DOMAIN s : Test(s[i]) /\ \A j \in 1..(i - 1) : ~Test(s[j])) - 1
    ELSE -1

calculateTeamPlacement(teamRaceData, allRaceResults, scoringConfig) ==
    LET teamScores == sort(scoreTeams(groupByTeam(<<>>, allRaceResults),
                                      scoringConfig.scoringPlaces),
                           LAMBDA a, b : a.score - b.score)
        firstAthlete == teamRaceData.results[1].athlete
        found == filter(allRaceResults, LAMBDA r : r.athlete = firstAthlete)
        teamName == IF teamRaceData.results # <<>> /\ found # <<>> THEN found[1].team ELSE ""
        placement == findIndex(teamScores, LAMBDA ts : ts.team = teamName) + 1
    IN  IF placement > 0 THEN placement ELSE 0

calculateTeamScore(raceData, allRaceResults, scoringConfig) ==
    IF Len(raceData.results) < scoringConfig.scoringPlaces
    THEN raceData
    ELSE
        LET loop == markScoring(raceData.results, scoringConfig.scoringPlaces, 0, 0, <<>>)
            scored == [raceData EXCEPT !.results = loop.results,
                                       !.teamScore = <<loop.teamScore>>]
        IN  [scored EXCEPT !.teamPlace =
                <<calculateTeamPlacement(scored, allRaceResults, scoringConfig)>>]

processRace(teamResults, allRaceResults, raceName, scoringConfig) ==
    LET sortedTeamResults ==
            sort(teamResults, LAMBDA a, b : PlaceOr999(a.place) - PlaceOr999(b.place))
        results == [i \in DOMAIN sortedTeamResults |->
                        [place |-> sortedTeamResults[i].place,
                         athlete |-> sortedTeamResults[i].athlete,
                         score |-> sortedTeamResults[i].score,
                         scoring |-> null]]
        raceData == [race |-> raceName, results |-> results,
                     teamScore |-> null, teamPlace |-> null]
    IN  IF scoringConfig.includeScoring
        THEN calculateTeamScore(raceData, allRaceResults, scoringConfig)
        ELSE raceData

\* the loop of extractTeamResults over raceOrder
RECURSIVE extractRaces(_, _, _, _)
extractRaces(order, raceGroups, results, scoringConfig) ==
    IF order = <<>> THEN <<>>
    ELSE
        LET raceId == Head(order)
            rest == extractRaces(Tail(order), raceGroups, results, scoringConfig)
        IN  IF ~MapHas(raceGroups, raceId) \/ MapGet(raceGroups, raceId) = <<>>
            THEN rest
            ELSE <<processRace(MapGet(raceGroups, raceId),
                               filter(results, LAMBDA r : r.raceIdentifier = raceId),
                               raceId, scoringConfig)>> \o rest

extractTeamResults(results, teamName, scoringConfig) ==
    LET teamResults == XCCSVParser_filterByTeam(results, teamName)
        raceGroups == groupByRace(<<>>, teamResults)
    IN  [teamName |-> IF teamResults # <<>> THEN teamResults[1].team ELSE teamName,
         teamScoreIncluded |-> scoringConfig.includeScoring,
         scoringPlaces |-> IF scoringConfig.includeScoring
                           THEN <<scoringConfig.scoringPlaces>> ELSE null,
         races |-> extractRaces(raceOrder, raceGroups, results, scoringConfig)]

\* XCCSVParser.parseFile reads the next line of the race's CSV file: a runner
\* of a team, with a score or with the score field '--'
ParseRow(team, scored) ==
    /\ teamResult = <<>>
    /\ Len(allResults) < MaxRunners
    /\ LET place == Len(allResults) + 1
       IN  allResults' = Append(allResults,
                                [place |-> place, athlete |-> RunnerNames[place],
                                 team |-> team,
                                 score |-> IF scored THEN <<place>> ELSE null,
                                 raceIdentifier |-> RaceId])
    /\ UNCHANGED <<dirExists, files, result, first, events, valid, lookup, options,
                   selected, allMode, teamResult, individuals, relays, categories>>

\* one iteration of extractAllTeams: the result of a team of getUniqueTeams
ExtractTeam(team, scoringConfig) ==
    /\ teamResult = <<>>
    /\ team \in getUniqueTeams(allResults)
    /\ teamResult' = <<[team |-> team, scoringConfig |-> scoringConfig,
                        value |-> extractTeamResults(allResults, team, scoringConfig)]>>
    /\ UNCHANGED <<dirExists, files, result, first, events, valid, lookup, options,
                   selected, allMode, allResults, individuals, relays, categories>>

NextXC ==
    \/ \E team \in XCTeams, scored \in BOOLEAN : ParseRow(team, scored)
    \/ \E team \in XCTeams, includeScoring \in BOOLEAN, scoringPlaces \in 1..MaxScoringPlaces :
          ExtractTeam(team, [includeScoring |-> includeScoring,
                             scoringPlaces |-> scoringPlaces])

SpecXC == Init /\ [][NextXC]_vars

----------------------------------------------------------------------------
(* Track rankings: ResultUtils, EventRankingsGenerator, RelayRankingsGenerator *)

\* the marks of the results: times of the 100, distances of the long jump,
\* times of the 4x100 relay, and marks of results that are not performances
TrackMarks == {"12.50", "13.10", "dnf "}
FieldMarks == {"12-03.00", "14-00.00", "NH"}
RelayMarks == {"52.10", "55.00", "DQ"}

RankedEvents == {"100", "LJ"}
RelayEvent == "4x100"

\* the athletes of the individual results and the teams of the relays
RankAthletes == {"X", "Y"}
RelayTeams == {"P", "Q"}
RelaySquad == <<"Y", "X">>

toUpperCase(s) == IF s = "dnf " THEN "DNF " ELSE s

trim(s) == IF s = "DNF " THEN "DNF" ELSE s

invalidResults == <<"DNS", "DNF", "DQ", "NH", "FOUL", "FS", "SCR">>

isValidResult(res) == ~includes(invalidResults, trim(toUpperCase(res)))

ResultUtils_trackEvents ==
    <<"60", "100", "200", "400", "800", "1600", "3200", "4x100", "4x200", "4x400", "4x800">>

ResultUtils_isTrackEvent(eventAbbr) == includes(ResultUtils_trackEvents, eventAbbr)

\* Infinity of the comparisons, in the unit of the values below
Infinity == 1000000

\* ResultUtils.timeToSeconds, in hundredths of a second
timeToSeconds(timeStr) ==
    IF ~isValidResult(timeStr) THEN Infinity
    ELSE CASE timeStr = "12.50" -> 1250
           [] timeStr = "13.10" -> 1310
           [] timeStr = "52.10" -> 5210
           [] timeStr = "55.00" -> 5500
           [] OTHER -> Infinity

\* ResultUtils.measureToInches, in hundredths of an inch
measureToInches(measureStr) ==
    IF ~isValidResult(measureStr) THEN -Infinity
    ELSE CASE measureStr = "12-03.00" -> (12 * 12 + 3) * 100
           [] measureStr = "14-00.00" -> (14 * 12 + 0) * 100
           [] OTHER -> -Infinity

compareResults(result1, result2, eventAbbr) ==
    IF ~isValidResult(result1) /\ ~isValidResult(result2) THEN 0
    ELSE IF ~isValidResult(result1) THEN 1
    ELSE IF ~isValidResult(result2) THEN -1
    ELSE IF ResultUtils_isTrackEvent(eventAbbr)
    THEN LET time1 == timeToSeconds(result1)
             time2 == timeToSeconds(result2)
         IN  IF time1 < time2 THEN -1 ELSE IF time1 > time2 THEN 1 ELSE 0
    ELSE LET measure1 == measureToInches(result1)
             measure2 == measureToInches(result2)
         IN  IF measure1 > measure2 THEN -1 ELSE IF measure1 < measure2 THEN 1 ELSE 0

\* the grouping loops of the generators: Map key -> rows, keys[i] the key of
\* rows[i]
RECURSIVE groupByKey(_, _, _)
groupByKey(grouped, rows, keys) ==
    IF rows = <<>> THEN grouped
    ELSE
        LET k == Head(keys)
            withKey == IF MapHas(grouped, k) THEN grouped ELSE MapSet(grouped, k, <<>>)
        IN  groupByKey(MapSet(withKey, k, Append(MapGet(withKey, k), Head(rows))),
                       Tail(rows), Tail(keys))

\* the ranking of one athlete of a category
AthleteRanking(athleteResults, eventAbbr) ==
    LET sortedResults == sort(athleteResults,
                              LAMBDA a, b : compareResults(a.result, b.result, eventAbbr))
        bestResult == sortedResults[1]
    IN  [name |-> bestResult.athlete,
         team |-> bestResult.teamName,
         bestResult |-> bestResult.result,
         allResults |-> [i \in DOMAIN sortedResults |->
                            [result |-> sortedResults[i].result,
                             meet |-> sortedResults[i].meetName]]]

\* the EventCategory of one entry of categoryMap
EventCategory(categoryKey, results) ==
    LET athleteMap == groupByKey(<<>>, results,
                                 [i \in DOMAIN results |-> results[i].athlete])
        rankings == [i \in DOMAIN athleteMap |->
                        AthleteRanking(athleteMap[i].value, categoryKey[1])]
    IN  [event |-> categoryKey[1], gender |-> categoryKey[2], grade |-> categoryKey[3],
         rankings |-> sort(rankings,
                           LAMBDA a, b : compareResults(a.bestResult, b.bestResult,
                                                        categoryKey[1]))]

generateRankings(results) ==
    LET valid_ == filter(results, LAMBDA r : isValidResult(r.result))
        categoryMap == groupByKey(<<>>, valid_,
                                  [i \in DOMAIN valid_ |->
                                      <<valid_[i].eventAbbr, valid_[i].athleteGender,
                                        valid_[i].grade>>])
        cats == [i \in DOMAIN categoryMap |->
                    EventCategory(categoryMap[i].key, categoryMap[i].value)]
    IN  sort(cats, LAMBDA a, b :
                IF a.event # b.event THEN localeCompare(a.event, b.event)
                ELSE 0)

getRelayTeamKey(teamCode, athletes) ==
    <<teamCode, sort(athletes, LAMBDA a, b : IF a = b THEN 0 ELSE IF a = "X" THEN -1 ELSE 1)>>

\* all athletes of a relay of the model are in one grade
determineRelayGrade(athletes) == IF athletes = <<>> THEN "" ELSE Grade

\* the RelayRanking of one entry of teamMap, before the ranks are assigned
RelayRanking(teamRelays, eventAbbr) ==
    LET sortedRelays == sort(teamRelays,
                             LAMBDA a, b : compareResults(a.result, b.result, eventAbbr))
        bestRelay == sortedRelays[1]
    IN  [rank |-> 0,
         name |-> bestRelay.teamCode,
         team |-> bestRelay.teamCode,
         bestResult |-> bestRelay.result,
         allResults |-> [i \in DOMAIN teamRelays |->
                            [result |-> teamRelays[i].result,
                             meet |-> teamRelays[i].meetName]]]

\* the RelayCategory of one entry of categoryMap
RelayCategory(categoryKey, catRelays) ==
    LET teamMap == groupByKey(<<>>, catRelays,
                              [i \in DOMAIN catRelays |->
                                  getRelayTeamKey(catRelays[i].teamCode,
                                                  catRelays[i].athletes)])
        rankings == sort([i \in DOMAIN teamMap |->
                             RelayRanking(teamMap[i].value, categoryKey[1])],
                         LAMBDA a, b : compareResults(a.bestResult, b.bestResult,
                                                      categoryKey[1]))
    IN  [event |-> categoryKey[1], gender |-> categoryKey[2], grade |-> categoryKey[3],
         rankings |-> [i \in DOMAIN rankings |-> [rankings[i] EXCEPT !.rank = i]]]

generateRelayRankings(allRelayResults) ==
    LET categoryMap == groupByKey(<<>>, allRelayResults,
                                  [i \in DOMAIN allRelayResults |->
                                      <<allRelayResults[i].eventAbbr,
                                        allRelayResults[i].gender,
                                        determineRelayGrade(allRelayResults[i].athletes)>>])
    IN  [i \in DOMAIN categoryMap |->
            RelayCategory(categoryMap[i].key, categoryMap[i].value)]

\* the marks a result of an event can carry
MarksOf(eventAbbr) == IF eventAbbr = "100" THEN TrackMarks ELSE FieldMarks

\* CSVParser.parseDirectoryWithRelays reads an individual result
ParseResult(eventAbbr, athlete, mark) ==
    /\ categories = <<>>
    /\ Len(individuals) + Len(relays) < MaxResults
    /\ individuals' = Append(individuals,
                             [eventAbbr |-> eventAbbr, athlete |-> athlete,
                              athleteGender |-> "Male", grade |-> Grade,
                              teamName |-> IF athlete = "X" THEN "P" ELSE "Q",
                              result |-> mark,
                              meetName |-> Len(individuals) + 1])
    /\ UNCHANGED <<dirExists, files, result, first, events, valid, lookup, options,
                   selected, allMode, allResults, teamResult, relays, categories>>

\* CSVParser.parseDirectoryWithRelays reads a relay result
ParseRelay(teamCode, mark) ==
    /\ categories = <<>>
    /\ Len(individuals) + Len(relays) < MaxResults
    /\ relays' = Append(relays,
                        [eventAbbr |-> RelayEvent, gender |-> "Male",
                         teamCode |-> teamCode, athletes |-> RelaySquad,
                         result |-> mark,
                         meetName |-> Len(relays) + 1])
    /\ UNCHANGED <<dirExists, files, result, first, events, valid, lookup, options,
                   selected, allMode, allResults, teamResult, individuals, categories>>

\* the processing script generates the event rankings of the season
GenerateRankings ==
    /\ ~MapHas(categories, "events")
    /\ categories' = MapSet(categories, "events", generateRankings(individuals))
    /\ UNCHANGED <<dirExists, files, result, first, events, valid, lookup, options,
                   selected, allMode, allResults, teamResult, individuals, relays>>

\* the processing script generates the relay rankings of the season
GenerateRelayRankings ==
    /\ ~MapHas(categories, "relays")
    /\ categories' = MapSet(categories, "relays", generateRelayRankings(relays))
    /\ UNCHANGED <<dirExists, files, result, first, events, valid, lookup, options,
                   selected, allMode, allResults, teamResult, individuals, relays>>

NextRank ==
    \/ \E eventAbbr \in RankedEvents, athlete \in RankAthletes :
          \E mark \in MarksOf(eventAbbr) : ParseResult(eventAbbr, athlete, mark)
    \/ \E teamCode \in RelayTeams, mark \in RelayMarks : ParseRelay(teamCode, mark)
    \/ GenerateRankings
    \/ GenerateRelayRankings

SpecRank == Init /\ [][NextRank]_vars

----------------------------------------------------------------------------
(* Calls of isValidCombination and of the points lookup on their own *)

PushEvent(e) ==
    /\ Len(events) < MaxLen
    /\ events' = Append(events, e)
    /\ valid' = <<>>
    /\ UNCHANGED <<dirExists, files, result, first, lookup, options, selected, other>>

CheckCombination ==
    /\ valid = <<>>
    /\ valid' = <<Simple_isValidCombination(events)>>
    /\ UNCHANGED <<dirExists, files, result, first, events, lookup, options, selected, other>>

\* the same call on the advanced class; the answer is tagged with the class
CheckCombinationAdvanced ==
    /\ valid = <<>>
    /\ valid' = <<Advanced_isValidCombination(events), "advanced">>
    /\ UNCHANGED <<dirExists, files, result, first, events, lookup, options, selected, other>>

LookupPoints(p) ==
    /\ lookup' = <<[place |-> p, points |-> PointsFor(p)]>>
    /\ UNCHANGED <<dirExists, files, result, first, events, valid, options, selected, other>>

NextUnit ==
    \/ \E e \in ListEvents : PushEvent(e)
    \/ CheckCombination
    \/ CheckCombinationAdvanced
    \/ \E p \in -1..MaxPlace : LookupPoints(p)

SpecUnit == Init /\ [][NextUnit]_vars

----------------------------------------------------------------------------
(* The greedy selection of one athlete on its own *)

\* athleteScores.get(athlete).set(event, {rank, points}) for an event the
\* athlete had no score in
AddOption(e, r) ==
    /\ Len(options) < MaxOptions
    /\ ~MapHas(options, e)
    /\ options' = MapSet(options, e, [rank |-> r, points |-> PointsFor(r)])
    /\ Listed([i \in DOMAIN options' |-> [eventAbbr |-> options'[i].key]])
    /\ selected' = <<>>
    /\ UNCHANGED <<dirExists, files, result, first, events, valid, lookup, other>>

SelectEvents ==
    /\ options # <<>>
    /\ selected = <<>>
    /\ selected' = <<Simple_athlete("X", options).entry, "simple">>
    /\ UNCHANGED <<dirExists, files, result, first, events, valid, lookup, options, other>>

\* athleteOptions.get(athlete) of the advanced optimizer for the same
\* candidates, each projected at its current rank
OptionScores ==
    [i \in DOMAIN options |->
        [athlete |-> "X", team |-> "P", event |-> options[i].key,
         rank |-> options[i].value.rank, projectedPlace |-> options[i].value.rank,
         points |-> options[i].value.points]]

SelectEventsAdvanced ==
    /\ options # <<>>
    /\ selected = <<>>
    /\ selected' = <<Advanced_athlete("X", OptionScores).entry, "advanced">>
    /\ UNCHANGED <<dirExists, files, result, first, events, valid, lookup, options, other>>

NextGreedy ==
    \/ \E e \in OptionEvents, r \in 1..MaxRank : AddOption(e, r)
    \/ SelectEvents
    \/ SelectEventsAdvanced

SpecGreedy == Init /\ [][NextGreedy]_vars

----------------------------------------------------------------------------
(* Properties *)

Returned == result.status = "ok"

Entries == result.value.athleteEntries

Breakdown == result.value.eventBreakdown

\* the categories the last optimize call loaded
Loaded == loadRankings(files, Season, result.gender, Grade)

\* the rows of the requested team among the loaded categories
LoadedTeamRows ==
    LET loaded == Loaded
    IN  UNION {{<<k, i>> : i \in {j \in DOMAIN loaded[k].rankings :
                                      loaded[k].rankings[j].team = result.teamName}} :
               k \in DOMAIN loaded}

Occurrences(evs, S) == Cardinality({i \in DOMAIN evs : evs[i] \in S})

\* the timed event codes
TimedCodes == {"60", "100", "200", "400", "800", "1600", "3200",
               "4x100", "4x200", "4x400", "4x800"}

\* C1: every athlete entry of a returned OptimizationResult, of the simple
\* and of the advanced optimizer, lists at most 4 events.
C1_Cap ==
    Returned => \A i \in DOMAIN Entries : Len(Entries[i].events) <= 4

\* an athlete ranked in five events got a full entry from the simple optimizer
C1_Witness ==
    /\ Returned
    /\ result.method = "simple"
    /\ \E i \in DOMAIN Entries :
          /\ Len(Entries[i].events) = 4
          /\ Cardinality({p \in LoadedTeamRows :
                            Loaded[p[1]].rankings[p[2]].athlete = Entries[i].athlete}) = 5

\* C2: an athlete entry that holds both 1600 and 800 holds at most one other
\* track event, and when it holds 4 events at least one of them is a field
\* event.
C2_DistanceDouble ==
    Returned =>
        \A i \in DOMAIN Entries :
            LET evs == Entries[i].events
            IN  (includes(evs, "1600") /\ includes(evs, "800")) =>
                    /\ Occurrences(evs, TimedCodes \ {"1600", "800"}) <= 1
                    /\ Len(evs) = 4 => Occurrences(evs, TimedCodes) < 4

\* a distance doubler with a full entry: one more track event and a field event
C2_Witness ==
    /\ Returned
    /\ \E i \in DOMAIN Entries :
          /\ includes(Entries[i].events, "1600")
          /\ includes(Entries[i].events, "800")
          /\ Len(Entries[i].events) = 4

\* C4: totalProjectedPoints is the sum of the athlete entries' projectedPoints
\* and the sum of the projectedPoints of all athlete rows of the breakdown.
C4_TotalConsistency ==
    Returned =>
        /\ result.value.totalProjectedPoints =
              SumSeq([i \in DOMAIN Entries |-> Entries[i].projectedPoints])
        /\ result.value.totalProjectedPoints =
              SumSeq([k \in DOMAIN Breakdown |->
                        SumSeq([i \in DOMAIN Breakdown[k].athletes |->
                                    Breakdown[k].athletes[i].projectedPoints])])

\* two scoring athletes entered in two events each
C4_Witness ==
    /\ Returned
    /\ Len(Entries) = 2
    /\ Len(Breakdown) = 2
    /\ \A i \in DOMAIN Entries :
          Entries[i].projectedPoints > 0 /\ Len(Entries[i].events) = 2
    /\ result.value.totalProjectedPoints > Entries[1].projectedPoints

\* the rows of a loaded event category that belong to their team's first
\* three rows of that event
TopThree(eventData, j) ==
    Cardinality({i \in 1..(j - 1) :
                    eventData.rankings[i].team = eventData.rankings[j].team}) < 3

LoadedEvent(e) ==
    LET loaded == Loaded
    IN  loaded[CHOOSE k \in DOMAIN loaded : loaded[k].eventAbbr = e]

\* C6: the projectedPlace of a team row is 1 + the number of rows of the event
\* with a strictly smaller rank that are among the first three rows of their
\* own team in that event, whatever the athletes' names.
C6_ProjectedPlace ==
    (Returned /\ result.method = "advanced") =>
        \A k \in DOMAIN Breakdown :
            \A i \in DOMAIN Breakdown[k].athletes :
                LET eventData == LoadedEvent(Breakdown[k].event)
                    row == Breakdown[k].athletes[i]
                IN  row.projectedPlace =
                        1 + Cardinality({j \in DOMAIN eventData.rankings :
                                /\ eventData.rankings[j].rank < row.currentRank
                                /\ TopThree(eventData, j)})

\* the categories in the order of their event codes
SortedFiles == sort(files, LAMBDA a, b : localeCompare(a.eventAbbr, b.eventAbbr))

\* C7: the result of either optimizer is the one it returns when the
\* categories are supplied in the order of their event codes, whatever the
\* order they are supplied in.
C7_OrderIndependent ==
    Returned =>
        result.value =
            IF result.method = "simple"
            THEN Simple_optimize(dirExists, SortedFiles, Season,
                                 result.teamName, result.gender, Grade).value
            ELSE Advanced_optimize(dirExists, SortedFiles, Season,
                                   result.teamName, result.gender, Grade).value

\* C8: when no ranking category matches the requested gender and grade,
\* optimize fails with a data-not-found error.
C8_MissingDataFails ==
    (result.status # "none" /\ Loaded = <<>>) => result.status = "error"

\* C9: when matching categories exist and none of their rows belongs to the
\* team, optimize returns a result with 0 points and no entries.
C9_EmptyTeam ==
    (result.status # "none" /\ dirExists /\ Loaded # <<>> /\ LoadedTeamRows = {}) =>
        /\ result.status = "ok"
        /\ result.value.totalProjectedPoints = 0
        /\ result.value.athleteEntries = <<>>
        /\ result.value.eventBreakdown = <<>>

\* an optimize call over categories that rank other teams only
C9_Witness ==
    /\ Returned
    /\ Loaded # <<>>
    /\ LoadedTeamRows = {}
    /\ result.value.athleteEntries = <<>>

\* C5: isValidCombination returns false exactly when the list has more than 4
\* events, or holds 1600 and 800 and more than one other track event, or
\* holds 1600 and 800, has exactly 4 events and no field event; the track
\* events are exactly the timed codes, every other code is a field event.
C5_ValidityRule ==
    /\ \A e \in ListEvents :
          /\ isTrackEvent(e) <=> e \in TimedCodes
          /\ isFieldEvent(e) <=> e \notin TimedCodes
    /\ valid # <<>> =>
          LET double == Occurrences(events, {"1600"}) > 0 /\ Occurrences(events, {"800"}) > 0
              tooMany == Len(events) > 4
              tooMuchTrack == double /\ Occurrences(events, TimedCodes \ {"1600", "800"}) > 1
              noField == double /\ Len(events) = 4
                         /\ Occurrences(events, ListEvents \ TimedCodes) = 0
          IN  valid[1] = ~(tooMany \/ tooMuchTrack \/ noField)

\* a list of 4 events turned down only for lack of a field event
C5_Witness ==
    /\ valid = <<FALSE>>
    /\ Len(events) = 4
    /\ Occurrences(events, TimedCodes \ {"1600", "800"}) <= 1

\* C10: the points lookup returns 8, 6, 4, 2, 1 for the places 1 to 5 and 0
\* for every other value, and is non-increasing over the positive places.
C10_PointsTable ==
    lookup # <<>> =>
        LET p == lookup[1].place
        IN  /\ lookup[1].points =
                  CASE p = 1 -> 8 [] p = 2 -> 6 [] p = 3 -> 4 [] p = 4 -> 2
                    [] p = 5 -> 1 [] OTHER -> 0
            /\ \A q \in 1..MaxPlace : (1 <= p /\ p < q) => PointsFor(q) <= lookup[1].points

\* a lookup of a place beyond the table
C10_Witness ==
    /\ lookup # <<>>
    /\ lookup[1].points = 0
    /\ lookup[1].place > 5

\* the sub-lists of the candidates, in candidate order
SubList(S) ==
    LET idx == sort([i \in 1..Cardinality(S) |->
                        CHOOSE x \in S : Cardinality({y \in S : y < x}) = i - 1],
                    LAMBDA a, b : a - b)
    IN  [i \in DOMAIN idx |-> options[idx[i]].key]

PointsOfSet(S) ==
    LET list == SubList(S)
    IN  SumSeq([i \in DOMAIN list |-> MapGet(options, list[i]).points])

\* C3: the points of the greedy selection are the most any valid subset of the
\* athlete's candidate events scores.
C3_GreedyOptimal ==
    selected # <<>> =>
        LET chosen == selected[1].events
            got == SumSeq([i \in DOMAIN chosen |-> MapGet(options, chosen[i]).points])
        IN  \A S \in SUBSET (DOMAIN options) :
                Simple_isValidCombination(SubList(S)) => PointsOfSet(S) <= got

\* what an optimizer run returned or threw
Outcome(r) == [x \in DOMAIN r \ {"method", "teamName", "gender", "run"} |-> r[x]]

RankedAthletes ==
    LET loaded == Loaded
    IN  {loaded[p[1]].rankings[p[2]].athlete : p \in LoadedTeamRows}

\* C12: the result holds exactly one athlete entry for every athlete that has
\* a ranking row of the requested team, each with at least one event (also
\* when its events score 0 points), and no entry for anyone else.
C12_OneEntryPerAthlete ==
    Returned =>
        /\ {Entries[i].athlete : i \in DOMAIN Entries} = RankedAthletes
        /\ \A i, j \in DOMAIN Entries : Entries[i].athlete = Entries[j].athlete => i = j
        /\ \A i \in DOMAIN Entries : Len(Entries[i].events) >= 1

\* two athletes of the team entered, one of them without a point
C12_Witness ==
    /\ Returned
    /\ Len(Entries) = 2
    /\ \E i \in DOMAIN Entries : Entries[i].projectedPoints = 0
    /\ \E i \in DOMAIN Entries : Entries[i].projectedPoints > 0

\* the meet's score of a place
PlacePoints(p) ==
    CASE p = 1 -> 8 [] p = 2 -> 6 [] p = 3 -> 4 [] p = 4 -> 2 [] p = 5 -> 1 [] OTHER -> 0

\* C13: in every athlete row of the event breakdown projectedPoints is the
\* score of projectedPlace and currentRank is the rank of a row of that
\* athlete and team in that event; in the simple optimizer projectedPlace is
\* currentRank.
C13_BreakdownRows ==
    Returned =>
        \A k \in DOMAIN Breakdown :
            LET rankings == LoadedEvent(Breakdown[k].event).rankings
            IN  \A i \in DOMAIN Breakdown[k].athletes :
                    LET row == Breakdown[k].athletes[i]
                    IN  /\ row.projectedPoints = PlacePoints(row.projectedPlace)
                        /\ \E j \in DOMAIN rankings :
                              /\ rankings[j].athlete = row.athlete
                              /\ rankings[j].team = result.teamName
                              /\ rankings[j].rank = row.currentRank
                        /\ result.method = "simple" => row.projectedPlace = row.currentRank

\* the advanced optimizer projected a scoring athlete ahead of the current rank
C13_Witness ==
    /\ Returned
    /\ result.method = "advanced"
    /\ \E k \in DOMAIN Breakdown :
          \E i \in DOMAIN Breakdown[k].athletes :
              LET row == Breakdown[k].athletes[i]
              IN  /\ row.projectedPlace < row.currentRank
                  /\ row.projectedPoints > PlacePoints(row.currentRank)

\* C14: athleteEntries is sorted by projectedPoints, non-increasing;
\* eventBreakdown is sorted ascending by event code; the athletes of every
\* breakdown entry are sorted by projectedPlace, non-decreasing.
C14_OutputOrdering ==
    Returned =>
        /\ \A i, j \in DOMAIN Entries :
              i < j => Entries[i].projectedPoints >= Entries[j].projectedPoints
        /\ \A k, l \in DOMAIN Breakdown :
              k < l => localeCompare(Breakdown[k].event, Breakdown[l].event) < 0
        /\ \A k \in DOMAIN Breakdown :
              \A i, j \in DOMAIN Breakdown[k].athletes :
                  i < j => Breakdown[k].athletes[i].projectedPlace
                              <= Breakdown[k].athletes[j].projectedPlace

\* the athlete first seen scores less than the one seen second, the
\* directory is listed in descending order, and an event has two athletes
C14_Witness ==
    /\ Returned
    /\ Len(Entries) = 2
    /\ Entries[1].projectedPoints > Entries[2].projectedPoints
    /\ Entries[2].athlete = Loaded[1].rankings[1].athlete
    /\ Len(Breakdown) = 2
    /\ localeCompare(Loaded[1].eventAbbr, Loaded[2].eventAbbr) > 0
    /\ \E k \in DOMAIN Breakdown :
          /\ Len(Breakdown[k].athletes) = 2
          /\ Breakdown[k].athletes[1].projectedPlace < Breakdown[k].athletes[2].projectedPlace

\* the breakdown row behind the n-th event of an athlete entry: an event the
\* entry lists c times has c rows of the athlete, in the same order
EntryRow(entry, n) ==
    LET e == entry.events[n]
        c == Cardinality({m \in 1..n : entry.events[m] = e})
        athletes == Breakdown[CHOOSE k \in DOMAIN Breakdown : Breakdown[k].event = e].athletes
        mine == filter(athletes, LAMBDA row : row.athlete = entry.athlete)
    IN  mine[c]

RowsOf(athlete) ==
    LET loaded == Loaded
    IN  {p \in LoadedTeamRows : loaded[p[1]].rankings[p[2]].athlete = athlete}

\* Scenario C: the athlete has exactly four rows, all of rank 1, in 1600,
\* 800, 200 and 400
ScenarioC(athlete) ==
    LET loaded == Loaded
        rows == RowsOf(athlete)
    IN  /\ Len(files) >= 4
        /\ Cardinality(rows) = 4
        /\ {loaded[p[1]].eventAbbr : p \in rows} = {"1600", "800", "200", "400"}
        /\ \A p \in rows : loaded[p[1]].rankings[p[2]].rank = 1

\* the events an athlete is ranked in, in the order the categories were loaded
CandidateEvents(athlete) ==
    LET mine == filter(Loaded, LAMBDA eventData :
                    \E j \in DOMAIN eventData.rankings :
                        /\ eventData.rankings[j].athlete = athlete
                        /\ eventData.rankings[j].team = result.teamName)
    IN  [k \in DOMAIN mine |-> mine[k].eventAbbr]

Range(s) == {s[i] : i \in DOMAIN s}

\* C16: an athlete ranked 1st in exactly 1600, 800, 200 and 400 gets an entry
\* of exactly three events, 1600, 800 and 200 in some order, worth 24 points.
C16_ScenarioC ==
    Returned =>
        \A who \in Roster :
            (who.team = result.teamName /\ ScenarioC(who.athlete)) =>
                \E i \in DOMAIN Entries :
                    /\ Entries[i].athlete = who.athlete
                    /\ Len(Entries[i].events) = 3
                    /\ Range(Entries[i].events) = {"1600", "800", "200"}
                    /\ Entries[i].projectedPoints = 24

\* C16, amended: an athlete ranked 1st in exactly 1600, 800, 200 and 400 gets
\* an entry of exactly three events worth 24 points: the first three of the
\* four in the order the categories were loaded; the fourth is rejected.
C16_ScenarioC_Amended ==
    Returned =>
        \A who \in Roster :
            (who.team = result.teamName /\ ScenarioC(who.athlete)) =>
                \E i \in DOMAIN Entries :
                    /\ Entries[i].athlete = who.athlete
                    /\ Entries[i].events = SubSeq(CandidateEvents(who.athlete), 1, 3)
                    /\ Entries[i].projectedPoints = 24

\* the athlete of scenario C in a directory listed by ascending name: the
\* advanced optimizer keeps 1600, 200 and 400
C16_Witness ==
    /\ Returned
    /\ result.method = "advanced"
    /\ \E i \in DOMAIN Entries :
          /\ ScenarioC(Entries[i].athlete)
          /\ Entries[i].events = <<"1600", "200", "400">>
          /\ Entries[i].projectedPoints = 24

\* the candidate events of the athlete whose selection was made
OptionKeys == {options[i].key : i \in DOMAIN options}

OptionPoints == SumSeq([i \in DOMAIN options |-> PlacePoints(options[i].value.rank)])

\* C17: an athlete whose candidates are 1600, 800, one other track event and
\* one field event keeps all four, whatever their ranks, and scores the sum
\* of their points.
C17_ScenarioB ==
    (/\ selected # <<>>
     /\ Len(options) = 4
     /\ {"1600", "800"} \subseteq OptionKeys
     /\ Cardinality(OptionKeys \cap (TimedCodes \ {"1600", "800"})) = 1
     /\ Cardinality(OptionKeys \ TimedCodes) = 1) =>
        /\ Len(selected[1].events) = 4
        /\ Range(selected[1].events) = OptionKeys
        /\ selected[1].projectedPoints = OptionPoints

\* ranked 2nd in 1600, 3rd in 800, 1st in 200 and 1st in LJ: four events, 26 points
C17_Witness ==
    /\ selected # <<>>
    /\ Len(options) = 4
    /\ MapHas(options, "1600") /\ MapGet(options, "1600").rank = 2
    /\ MapHas(options, "800") /\ MapGet(options, "800").rank = 3
    /\ MapHas(options, "200") /\ MapGet(options, "200").rank = 1
    /\ MapHas(options, "LJ") /\ MapGet(options, "LJ").rank = 1
    /\ Len(selected[1].events) = 4
    /\ selected[1].projectedPoints = 26

\* the validity rule of an event list: at most 4 events, a 1600/800 double
\* with at most one other track event, and with a field event when full
ValidRule(evs) ==
    LET double == Occurrences(evs, {"1600"}) > 0 /\ Occurrences(evs, {"800"}) > 0
    IN  /\ Len(evs) <= 4
        /\ double => Occurrences(evs, TimedCodes \ {"1600", "800"}) <= 1
        /\ (double /\ Len(evs) = 4) => Occurrences(evs, TimedCodes) < 4

\* C18: an athlete with at most 4 candidate events that together form a valid
\* combination has every candidate selected and scores the sum of their
\* points.
C18_ScenarioA ==
    (/\ selected # <<>>
     /\ Len(options) <= 4
     /\ ValidRule([i \in DOMAIN options |-> options[i].key])) =>
        /\ Len(selected[1].events) = Len(options)
        /\ Range(selected[1].events) = OptionKeys
        /\ selected[1].projectedPoints = OptionPoints

\* ranked 1st in 100 and 1st in LJ: events ['100', 'LJ'] and 16 points
C18_Witness ==
    /\ selected # <<>>
    /\ [i \in DOMAIN options |-> options[i].key] = <<"100", "LJ">>
    /\ \A i \in DOMAIN options : options[i].value.rank = 1
    /\ selected[1].events = <<"100", "LJ">>
    /\ selected[1].projectedPoints = 16

\* no team has more than three rows in the event category
FullyLikely(eventData) ==
    \A j \in DOMAIN eventData.rankings :
        Cardinality({i \in DOMAIN eventData.rankings :
                        eventData.rankings[i].team = eventData.rankings[j].team}) <= 3

\* C19: in an event where every team has at most three athletes and the ranks
\* are 1..n, the advanced optimizer projects every athlete at the current rank.
C19_ScenarioD ==
    (Returned /\ result.method = "advanced") =>
        \A k \in DOMAIN Breakdown :
            LET eventData == LoadedEvent(Breakdown[k].event)
            IN  (/\ FullyLikely(eventData)
                 /\ \A j \in DOMAIN eventData.rankings : eventData.rankings[j].rank = j) =>
                    \A i \in DOMAIN Breakdown[k].athletes :
                        Breakdown[k].athletes[i].projectedPlace
                            = Breakdown[k].athletes[i].currentRank

\* five rows of two teams, the athlete ranked 3rd is projected 3rd
C19_Witness ==
    /\ Returned
    /\ result.method = "advanced"
    /\ \E k \in DOMAIN Breakdown :
          /\ Len(LoadedEvent(Breakdown[k].event).rankings) = 5
          /\ FullyLikely(LoadedEvent(Breakdown[k].event))
          /\ \E i \in DOMAIN Breakdown[k].athletes :
                /\ Breakdown[k].athletes[i].currentRank = 3
                /\ Breakdown[k].athletes[i].projectedPlace = 3

\* C20: an advanced optimizer run whose team identifier differs from the
\* first run's only in letter case returns the first run's athlete entries
\* and total.
C20_CaseInsensitive ==
    (/\ first # NoCall
     /\ first.method = "advanced" /\ result.method = "advanced"
     /\ first.status = "ok" /\ result.status = "ok"
     /\ first.gender = result.gender
     /\ toLowerCase(first.teamName) = toLowerCase(result.teamName)) =>
        /\ result.value.athleteEntries = first.value.athleteEntries
        /\ result.value.totalProjectedPoints = first.value.totalProjectedPoints

\* the race data of the extracted team result
Races == teamResult[1].value.races

\* the rows of the meet that a team's runners hold in a race
RunnersOf(team, race) ==
    filter(allResults, LAMBDA r : r.team = team /\ r.raceIdentifier = race)

\* C21: a team with fewer than scoringPlaces runners with a non-null score
\* in a race gets no teamScore and no teamPlace for that race.
C21_IncompleteTeams ==
    (teamResult # <<>> /\ teamResult[1].scoringConfig.includeScoring) =>
        \A k \in DOMAIN Races :
            LET scoring == filter(Races[k].results, LAMBDA r : r.score # null)
            IN  Len(scoring) < teamResult[1].scoringConfig.scoringPlaces =>
                    Races[k].teamScore = null /\ Races[k].teamPlace = null

\* C30: the result extracted for a team of getUniqueTeams holds exactly the
\* runners whose team field is that team, and a teamScore is the sum of the
\* scores of the team's own first scoringPlaces scoring finishers.
C30_TeamIsolation ==
    teamResult # <<>> =>
        LET team == teamResult[1].team
            scoringPlaces == teamResult[1].scoringConfig.scoringPlaces
        IN  \A k \in DOMAIN Races :
                LET own == RunnersOf(team, Races[k].race)
                    scorers == slice0(filter(own, LAMBDA r : r.score # null), scoringPlaces)
                IN  /\ {Races[k].results[i].athlete : i \in DOMAIN Races[k].results}
                        = {own[i].athlete : i \in DOMAIN own}
                    /\ Races[k].teamScore # null =>
                          Races[k].teamScore[1]
                            = SumSeq([i \in DOMAIN scorers |-> scorers[i].score[1]])

\* the marks that are no performance: DNS, DNF, DQ, NH and FOUL in any case
\* and with surrounding blanks
NotAPerformance(mark) ==
    trim(toUpperCase(mark)) \in {"DNS", "DNF", "DQ", "NH", "FOUL"}

\* no ranking of the generated categories shows a mark that is no performance
RankingsClean(cats) ==
    \A c \in DOMAIN cats : \A k \in DOMAIN cats[c].rankings :
        LET ranking == cats[c].rankings[k]
        IN  /\ ~NotAPerformance(ranking.bestResult)
            /\ \A i \in DOMAIN ranking.allResults :
                  ~NotAPerformance(ranking.allResults[i].result)

\* C22: no result marked DNS, DNF, DQ, NH or FOUL is the best result or in
\* the result list of an entry of the event rankings or of the relay rankings.
C22_InvalidMarksExcluded ==
    \A g \in DOMAIN categories : RankingsClean(categories[g].value)

\* the event rankings alone never show such a mark
EventRankingsClean ==
    MapHas(categories, "events") => RankingsClean(MapGet(categories, "events"))

\* isValidCombination of the class that made the selection
SelectorValid(evs) ==
    IF selected[2] = "simple" THEN Simple_isValidCombination(evs)
    ELSE Advanced_isValidCombination(evs)

\* C23: when the selection loop of either optimizer has ended, no candidate
\* event of the athlete that was left out can be appended to the final
\* selection and leave it valid.
C23_GreedyMaximal ==
    selected # <<>> =>
        \A e \in OptionKeys \ Range(selected[1].events) :
            ~SelectorValid(Append(selected[1].events, e))

\* 1600 and 800 ranked 1st, 200 and 400 ranked 2nd, LJ ranked 3rd: the 400 is
\* rejected, the loop goes on and takes LJ, and the 400 stays out
C23_Witness ==
    /\ selected # <<>>
    /\ selected[2] = "advanced"
    /\ selected[1].events = <<"1600", "800", "200", "LJ">>
    /\ "400" \in OptionKeys

\* isValidCombination of the class that was called
CalledValid(evs) ==
    IF Len(valid) = 2 THEN Advanced_isValidCombination(evs)
    ELSE Simple_isValidCombination(evs)

\* the lists that hold the elements of evs in another order
Reorderings(evs) ==
    {[i \in DOMAIN evs |-> evs[f[i]]] :
        f \in {g \in [DOMAIN evs -> DOMAIN evs] :
                  \A i, j \in DOMAIN evs : g[i] = g[j] => i = j}}

\* the list of the elements of evs at the indices of S, in the order of evs
Pick(evs, S) ==
    LET keep == SelectSeq([i \in DOMAIN evs |-> i], LAMBDA i : i \in S)
    IN  [k \in DOMAIN keep |-> evs[keep[k]]]

\* C29: for an event list without repeated codes isValidCombination gives the
\* same answer for every permutation of the list, and every sub-list of a
\* valid list is valid.
C29_OrderAndSubLists ==
    (valid # <<>> /\ \A i, j \in DOMAIN events : events[i] = events[j] => i = j) =>
        /\ \A p \in Reorderings(events) : CalledValid(p) = valid[1]
        /\ valid[1] => \A S \in SUBSET DOMAIN events : CalledValid(Pick(events, S))

\* a valid list of four different events that starts with the 800 and holds
\* the 1600, the long jump and one more track event
C29_Witness ==
    /\ valid # <<>> /\ valid[1]
    /\ Len(events) = 4
    /\ events[1] = "800"
    /\ {"1600", "LJ"} \subseteq Range(events)
    /\ Cardinality(Range(events)) = 4

\* C28: the events list of an AthleteEntry never holds the same event code
\* twice, also when the rankings hold two rows with the same athlete name
\* and team in one event.
C28_NoDuplicateEvents ==
    Returned =>
        \A n \in DOMAIN Entries :
            \A i, j \in DOMAIN Entries[n].events :
                Entries[n].events[i] = Entries[n].events[j] => i = j

\* the simple optimizer alone never lists an event twice
SimpleNoDuplicateEvents == (Returned /\ result.method = "simple") => C28_NoDuplicateEvents

\* C27: in every entry of the event breakdown no two athletes have the same
\* projectedPlace, and the projected points of the event are at most
\* 8 + 6 + 4 + 2 + 1 = 21.
C27_DistinctPlaces ==
    Returned =>
        \A k \in DOMAIN Breakdown :
            LET athletes == Breakdown[k].athletes
            IN  /\ \A i, j \in DOMAIN athletes :
                      athletes[i].projectedPlace = athletes[j].projectedPlace => i = j
                /\ SumSeq([i \in DOMAIN athletes |-> athletes[i].projectedPoints]) <= 21

\* the breakdown of the simple optimizer alone has distinct places
SimpleDistinctPlaces == (Returned /\ result.method = "simple") => C27_DistinctPlaces

\* every row of the requested team is projected at its current rank
ProjectedAtRank ==
    LET loaded == Loaded
        likelyEntries == predictCompetition(loaded)
    IN  \A k \in DOMAIN loaded : \A i \in DOMAIN loaded[k].rankings :
            LET ranking == loaded[k].rankings[i]
            IN  ranking.team = result.teamName =>
                    calculateProjectedPlace(ranking.athlete, loaded[k].eventAbbr,
                                            ranking.rank, likelyEntries, loaded[k])
                        = ranking.rank

\* no event ranks two athletes of the requested team under one name
NamesDistinct ==
    LET loaded == Loaded
    IN  \A k \in DOMAIN loaded : \A i, j \in DOMAIN loaded[k].rankings :
            (/\ loaded[k].rankings[i].team = result.teamName
             /\ loaded[k].rankings[j].team = result.teamName
             /\ loaded[k].rankings[i].athlete = loaded[k].rankings[j].athlete) => i = j

\* the result the simple optimizer returns for the call that was made
SimpleValue ==
    Simple_optimize(dirExists, files, Season, result.teamName, result.gender, Grade).value

\* C24: when every row's projectedPlace equals its currentRank the advanced
\* optimizer returns the OptimizationResult of the simple optimizer.
C24_AdvancedRefinesSimple ==
    (Returned /\ result.method = "advanced" /\ ProjectedAtRank) =>
        result.value = SimpleValue

\* the two results are equal when, in addition, the team's names are distinct
\* within each event
RefinesWithDistinctNames ==
    (Returned /\ result.method = "advanced" /\ NamesDistinct /\ ProjectedAtRank) =>
        result.value = SimpleValue

\* the isValidCombination of one class gives the answer of the other's
ValidityAgrees ==
    valid # <<>> =>
        valid[1] = IF Len(valid) = 2 THEN Simple_isValidCombination(events)
                   ELSE Advanced_isValidCombination(events)

\* the rows the simple optimizer's breakdown holds for an athlete in an event
SimpleRows(event, athlete) ==
    LET breakdown == SimpleValue.eventBreakdown
    IN  UNION {{breakdown[k].athletes[i] :
                   i \in {n \in DOMAIN breakdown[k].athletes :
                             breakdown[k].athletes[n].athlete = athlete}} :
               k \in {n \in DOMAIN breakdown : breakdown[n].event = event}}

\* C25: with ranks 1..n every row of the advanced optimizer has
\* 1 <= projectedPlace <= currentRank, and its points are at least the points
\* the simple optimizer gives the same row.
C25_PlaceWithinRank ==
    (Returned /\ result.method = "advanced") =>
        \A k \in DOMAIN Breakdown : \A i \in DOMAIN Breakdown[k].athletes :
            LET row == Breakdown[k].athletes[i]
            IN  /\ 1 <= row.projectedPlace
                /\ row.projectedPlace <= row.currentRank
                /\ row.projectedPoints >= PlacePoints(row.currentRank)
                /\ \A simple \in SimpleRows(Breakdown[k].event, row.athlete) :
                      row.projectedPoints >= simple.projectedPoints

\* the team's fifth athlete, ranked 5th, is projected 4th: 2 points where the
\* simple optimizer gives 1
C25_Witness ==
    /\ Returned
    /\ result.method = "advanced"
    /\ \E k \in DOMAIN Breakdown : \E i \in DOMAIN Breakdown[k].athletes :
          LET row == Breakdown[k].athletes[i]
          IN  /\ row.currentRank = 5
              /\ row.projectedPlace = 4
              /\ row.projectedPoints = 2
              /\ \E simple \in SimpleRows(Breakdown[k].event, row.athlete) :
                    simple.projectedPoints = 1

\* C26: in the all gender/grades mode a (gender, grade) pair for which the
\* rankings hold no matching category is reported as "No data", adds no entry
\* to the results list, and gets no JSON or TXT output.
C26_AllModeSkipsMissing ==
    allMode # <<>> =>
        \A n \in DOMAIN Combos :
            loadRankings(files, Season, Combos[n].gender, Combos[n].grade) = <<>> =>
                /\ \E i \in DOMAIN allMode[1].noData : allMode[1].noData[i] = Combos[n]
                /\ \A i \in DOMAIN allMode[1].results :
                      allMode[1].results[i].result.gender # Combos[n].gender
                      \/ allMode[1].results[i].result.grade # Combos[n].grade
                /\ \A f \in allMode[1].saved :
                      f[1][2] # Combos[n].gender \/ f[1][3] # Combos[n].grade

====
